---- MODULE Spec2Model ----
(***************************************************************************)
(* Model of invoice_parser (src/main.py): the numeric normalizer           *)
(* fix_float, the three line grammars and the merge-window tokenizer       *)
(* extract_line_by_line_items, the reconciliation reports and the          *)
(* acquisition cascade process_pdf.                                        *)
(*                                                                         *)
(* Text is modelled at two levels.  Numeric cell texts and numeric         *)
(* lexemes are sequences of one-character strings, so that int() and       *)
(* fix_float are computed character by character.  Lines of invoice text   *)
(* are sequences of lexemes ("tokens") separated by explicit whitespace    *)
(* tokens, so that strip(), the single-space join of the merge window and  *)
(* the \s+ / \s* parts of the regular expressions are computed.            *)
(*                                                                         *)
(* Floats are exact decimals held as an integer number of units of         *)
(* 10^-FracDigits.                                                         *)
(***************************************************************************)
EXTENDS Integers, Sequences, FiniteSets, TLC

(***************************************************************************)
(* Generic sequence helpers                                                *)
(***************************************************************************)
SeqRange(s) == {s[k] : k \in 1..Len(s)}

RECURSIVE FilterOut(_, _)
\* str.replace(c, '') for every character c of the set drop
FilterOut(s, drop) ==
    IF s = <<>> THEN <<>>
    ELSE IF Head(s) \in drop THEN FilterOut(Tail(s), drop)
    ELSE <<Head(s)>> \o FilterOut(Tail(s), drop)

Abs(x) == IF x < 0 THEN -x ELSE x

(***************************************************************************)
(* Characters.  "D" stands for a run of 400 decimal digits: a digit string *)
(* whose integer value is larger than the largest float.                   *)
(***************************************************************************)
DigitSeq == <<"0", "1", "2", "3", "4", "5", "6", "7", "8", "9">>
Digit == SeqRange(DigitSeq)
DigitRun == "D"
DigitVal(c) == (CHOOSE k \in 1..10 : DigitSeq[k] = c) - 1
WhiteChar == {" "}

\* the model's stand-in for the largest integer that converts to a float
\* (sys.float_info.max, about 1.8e308); the value of a DigitRun exceeds it
DblMaxInt == 100000

\* number of decimals the model keeps of a float
FracDigits == 3

RECURSIVE Pow10(_)
Pow10(n) == IF n = 0 THEN 1 ELSE 10 * Pow10(n - 1)

\* 1.0 and 0.01 in the model's unit
One == Pow10(FracDigits)
Cent == One \div 100

RECURSIVE LStripChars(_, _)
LStripChars(s, ws) ==
    IF s # <<>> /\ Head(s) \in ws THEN LStripChars(Tail(s), ws) ELSE s

RECURSIVE RStripChars(_, _)
RStripChars(s, ws) ==
    IF s # <<>> /\ s[Len(s)] \in ws
    THEN RStripChars(SubSeq(s, 1, Len(s) - 1), ws) ELSE s

\* str.strip()
StripChars(s) == RStripChars(LStripChars(s, WhiteChar), WhiteChar)

IsDigits(s) == s # <<>> /\ \A k \in 1..Len(s) : s[k] \in Digit \cup {DigitRun}

RECURSIVE DigitsVal(_)
\* value of a non-empty digit string (most significant digit first)
DigitsVal(s) ==
    IF s = <<>> THEN 0
    ELSE IF DigitRun \in SeqRange(s) THEN DblMaxInt + 1
    ELSE DigitsVal(SubSeq(s, 1, Len(s) - 1)) * 10 + DigitVal(s[Len(s)])

\* the unsigned part of s and its sign
Unsigned(s) == IF s # <<>> /\ s[1] \in {"-", "+"} THEN Tail(s) ELSE s
SignOf(s) == IF s # <<>> /\ s[1] = "-" THEN -1 ELSE 1

\* int(s): surrounding whitespace, an optional sign, decimal digits
IntOk(s) == IsDigits(Unsigned(StripChars(s)))
IntVal(s) == SignOf(StripChars(s)) * DigitsVal(Unsigned(StripChars(s)))

(***************************************************************************)
(* fix_float                                                               *)
(***************************************************************************)
RECURSIVE ReplaceDotComma(_)
\* raw.replace('.,', '.')
ReplaceDotComma(s) ==
    IF Len(s) < 2 THEN s
    ELSE IF s[1] = "." /\ s[2] = ","
         THEN <<".">> \o ReplaceDotComma(SubSeq(s, 3, Len(s)))
         ELSE <<s[1]>> \o ReplaceDotComma(Tail(s))

\* raw.replace(',', '.')
ReplaceComma(s) == [k \in 1..Len(s) |-> IF s[k] = "," THEN "." ELSE s[k]]

DotPositions(s) == {k \in 1..Len(s) : s[k] = "."}

\* parts = raw.split('.'); more than two parts: every dot but the last goes
MergeDots(s) ==
    IF Cardinality(DotPositions(s)) > 1
    THEN LET last == CHOOSE k \in DotPositions(s) :
                         \A j \in DotPositions(s) : j <= k
         IN  FilterOut(SubSeq(s, 1, last - 1), {"."}) \o SubSeq(s, last, Len(s))
    ELSE s

RECURSIVE CollapseDots(_)
\* re.sub(r'\.\.+', '.', raw)
CollapseDots(s) ==
    IF Len(s) < 2 THEN s
    ELSE IF s[1] = "." /\ s[2] = "." THEN CollapseDots(Tail(s))
    ELSE <<s[1]>> \o CollapseDots(Tail(s))

\* steps 1..8 of fix_float: the string handed to float()
FixFloatRaw(value) ==
    LET r1 == StripChars(value)
        r2 == FilterOut(r1, {"S", "_"})
        r3 == ReplaceDotComma(r2)
        r4 == ReplaceComma(r3)
        r5 == MergeDots(r4)
        r6 == CollapseDots(r5)
        r7 == FilterOut(r6, {" "})
    IN  IF r7 = <<>> THEN <<"0">> ELSE r7

\* float(raw) succeeds: optional sign, digits with at most one dot and at
\* least one digit (the alphabet has no exponent, "inf" or "nan")
FloatOk(raw) ==
    LET u == Unsigned(raw)
        d == FilterOut(u, {"."})
    IN  /\ Cardinality(DotPositions(u)) <= 1
        /\ d # <<>>
        /\ \A k \in 1..Len(d) : d[k] \in Digit

\* float(raw) in the model's unit; the fraction has at most FracDigits digits
FloatVal(raw) ==
    LET u    == Unsigned(raw)
        dots == DotPositions(u)
        dot  == IF dots = {} THEN Len(u) + 1 ELSE CHOOSE k \in dots : TRUE
        ip   == SubSeq(u, 1, dot - 1)
        fp   == SubSeq(u, dot + 1, Len(u))
    IN  SignOf(raw) * (DigitsVal(ip) * One
                       + DigitsVal(fp) * Pow10(FracDigits - Len(fp)))

fix_float(value) ==
    LET raw == FixFloatRaw(value)
    IN  IF FloatOk(raw) THEN FloatVal(raw) ELSE 0

(***************************************************************************)
(* Lines of text.  A string is a sequence of tokens; WS is one whitespace  *)
(* character, every other token is a lexeme without surrounding            *)
(* whitespace:                                                             *)
(*   PC  "Product Code: PRD-001"     CD  "PRD-77X"                         *)
(*   QA  "Quantity: 3 units"         W1  "Power"      W2  "Supply"         *)
(*   UP  "Unit Price: $10.00"        QB  "Qty: 2"     QBx "Q ty: 2"        *)
(*   AM  "Amount: $30.00"            PR  "Price: $5.00"                    *)
(*   HR  "Hours: 2 x"                PRx "P r i c e: $5.00"                *)
(*   RT  "Rate: $5.00/hr"            TT  "Total: $1.234,50"                *)
(*   QH  "Qty: 9...9" (400 digits)   PO  "PO: PO-123"                      *)
(*   PH  "Purchase Order: 200"       IN  "Invoice Number: INV-42"          *)
(*   JK  "Thank you!"                                                      *)
(***************************************************************************)
WS == "_"
Lexeme == {"PC", "QA", "UP", "AM", "CD", "W1", "W2", "QB", "QBx", "QH", "PR",
           "PRx", "TT", "PO", "HR", "RT", "PH", "IN", "JK"}

\* str.strip() of a line
StripLine(s) == RStripChars(LStripChars(s, {WS}), {WS})

\* cleanup_line: "P r i c e :" becomes "Price:", "Q ty:" becomes "Qty:"
CleanupTok(t) == IF t = "PRx" THEN "PR" ELSE IF t = "QBx" THEN "QB" ELSE t
cleanup_line(line) == [k \in 1..Len(line) |-> CleanupTok(line[k])]

\* the text a grammar captures from a lexeme
CodeText(t) == IF t = "PC" THEN "PRD-001" ELSE "PRD-77X"
QtyText(t) ==
    IF t = "QA" THEN <<"3">>
    ELSE IF t = "QH" THEN <<DigitRun>>
    ELSE <<"2">>
NumText(t) ==
    IF t = "UP" THEN <<"1", "0", ".", "0", "0">>
    ELSE IF t = "AM" THEN <<"3", "0", ".", "0", "0">>
    ELSE IF t = "TT" THEN <<"1", ".", "2", "3", "4", ",", "5", "0">>
    ELSE <<"5", ".", "0", "0">>
PoText(t) == IF t = "PO" THEN "123" ELSE "200"

\* index of the first non-whitespace token after position p (Len+1: none)
NextTok(s, p) ==
    IF \E k \in (p + 1)..Len(s) : s[k] # WS
    THEN CHOOSE k \in (p + 1)..Len(s) :
             s[k] # WS /\ \A j \in (p + 1)..(k - 1) : s[j] = WS
    ELSE Len(s) + 1

\* lexeme t follows position p after \s+ (gap = 1) or \s* (gap = 0)
Follows(s, p, t, gap) ==
    LET q == NextTok(s, p) IN q <= Len(s) /\ s[q] = t /\ q - p - 1 >= gap

Least(S) == CHOOSE k \in S : \A j \in S : k <= j

(***************************************************************************)
(* PRODUCT_CODE_PATTERN_A.search                                           *)
(***************************************************************************)
AStartsAt(s, p) ==
    /\ s[p] = "PC"
    /\ Follows(s, p, "QA", 1)
    /\ Follows(s, NextTok(s, p), "UP", 1)
    /\ Follows(s, NextTok(s, NextTok(s, p)), "AM", 1)
AStarts(s) == {p \in 1..Len(s) : AStartsAt(s, p)}
MatchA(s) == AStarts(s) # {}
\* the groups of the leftmost match
GroupsA(s) ==
    LET p  == Least(AStarts(s))
        q1 == NextTok(s, p)
        q2 == NextTok(s, q1)
        q3 == NextTok(s, q2)
    IN  [code |-> CodeText(s[p]), qty |-> QtyText(s[q1]),
         up |-> NumText(s[q2]), amt |-> NumText(s[q3])]

(***************************************************************************)
(* PRODUCT_CODE_PATTERN_B.search                                           *)
(***************************************************************************)
\* lexemes made of the characters of the description class [A-Za-z0-9 /_-]
DescTok == {"CD", "W1", "W2"}
\* the first token after the code that is outside the description class
DescEnd(s, p) ==
    IF \E k \in (p + 1)..Len(s) : s[k] \notin DescTok \cup {WS}
    THEN Least({k \in (p + 1)..Len(s) : s[k] \notin DescTok \cup {WS}})
    ELSE Len(s) + 1
\* the quantity lexemes of grammar B
IsQtyB(t) == t \in {"QB", "QH"}
BStartsAt(s, p) ==
    LET d == DescEnd(s, p) IN
    /\ s[p] \in {"CD", "PC"}
    /\ d <= Len(s) /\ IsQtyB(s[d])
    /\ p + 1 < d /\ s[p + 1] = WS /\ s[d - 1] = WS
    /\ \E k \in (p + 1)..(d - 1) : s[k] # WS
    /\ Follows(s, d, "PR", 1)
    /\ Follows(s, NextTok(s, d), "TT", 1)
BStarts(s) == {p \in 1..Len(s) : BStartsAt(s, p)}
MatchB(s) == BStarts(s) # {}
GroupsB(s) ==
    LET p  == Least(BStarts(s))
        d  == DescEnd(s, p)
        q1 == NextTok(s, d)
        q2 == NextTok(s, q1)
    IN  [code |-> CodeText(s[p]),
         description |-> SubSeq(s, p + 1, d - 1),
         qty |-> QtyText(s[d]), price |-> NumText(s[q1]),
         total |-> NumText(s[q2]),
         has_po |-> Follows(s, q2, "PO", 1),
         po |-> IF Follows(s, q2, "PO", 1) THEN PoText(s[NextTok(s, q2)])
                ELSE ""]

(***************************************************************************)
(* SERVICE_PATTERN.search                                                  *)
(***************************************************************************)
CHoursAt(s, h) ==
    /\ s[h] = "HR"
    /\ h > 1 /\ s[h - 1] = WS
    /\ Follows(s, h, "RT", 0)
    /\ Follows(s, NextTok(s, h), "AM", 1)
CHours(s) == {h \in 1..Len(s) : CHoursAt(s, h)}
MatchC(s) == CHours(s) # {}
GroupsC(s) ==
    LET h  == Least(CHours(s))
        q1 == NextTok(s, h)
        q2 == NextTok(s, q1)
    IN  [name |-> SubSeq(s, 1, h - 1), hrs |-> QtyText(s[h]),
         rate |-> NumText(s[q1]), amt |-> NumText(s[q2])]

(***************************************************************************)
(* parse_pattern_a / parse_pattern_b / parse_pattern_service               *)
(***************************************************************************)
parse_pattern_a(m, products_list) ==
    IF IntOk(m.qty)
    THEN Append(products_list,
                [product_code |-> m.code, quantity |-> IntVal(m.qty),
                 unit_price |-> fix_float(m.up),
                 total_price |-> fix_float(m.amt)])
    ELSE products_list

parse_pattern_b(m, products_list) ==
    IF IntOk(StripChars(m.qty))
    THEN LET rec == [product_code |-> m.code,
                     description |-> StripLine(m.description),
                     quantity |-> IntVal(StripChars(m.qty)),
                     unit_price |-> fix_float(StripChars(m.price)),
                     total_price |-> fix_float(StripChars(m.total))]
         IN  Append(products_list,
                    IF m.has_po
                    THEN [k \in DOMAIN rec \cup {"po_number"} |->
                             IF k = "po_number" THEN m.po ELSE rec[k]]
                    ELSE rec)
    ELSE products_list

parse_pattern_service(m, services_list) ==
    IF IntOk(StripChars(m.hrs))
    THEN Append(services_list,
                [service_name |-> StripLine(m.name),
                 hours |-> IntVal(StripChars(m.hrs)),
                 rate_per_hour |-> fix_float(StripChars(m.rate)),
                 amount |-> fix_float(StripChars(m.amt))])
    ELSE services_list

(***************************************************************************)
(* try_match_line: the result is the returned flag and the two lists       *)
(***************************************************************************)
\* a matcher that tries the service grammar first
try_match_line_service_first(line, products_list, services_list) ==
    IF MatchC(line)
    THEN [ok |-> TRUE, products |-> products_list,
          services |-> parse_pattern_service(GroupsC(line), services_list)]
    ELSE IF MatchA(line)
    THEN [ok |-> TRUE, products |-> parse_pattern_a(GroupsA(line), products_list),
          services |-> services_list]
    ELSE IF MatchB(line)
    THEN [ok |-> TRUE, products |-> parse_pattern_b(GroupsB(line), products_list),
          services |-> services_list]
    ELSE [ok |-> FALSE, products |-> products_list, services |-> services_list]

try_match_line(line, products_list, services_list) ==
    IF MatchA(line)
    THEN [ok |-> TRUE, products |-> parse_pattern_a(GroupsA(line), products_list),
          services |-> services_list]
    ELSE IF MatchB(line)
    THEN [ok |-> TRUE, products |-> parse_pattern_b(GroupsB(line), products_list),
          services |-> services_list]
    ELSE IF MatchC(line)
    THEN [ok |-> TRUE, products |-> products_list,
          services |-> parse_pattern_service(GroupsC(line), services_list)]
    ELSE [ok |-> FALSE, products |-> products_list, services |-> services_list]

(***************************************************************************)
(* extract_line_by_line_items.  The cursor i is 0-based as in the code.    *)
(***************************************************************************)
\* a merge loop that runs one width further
MAX_LINE_MERGE_more == 6 + 1
MAX_LINE_MERGE == 6

LineAt(ls, k) == ls[k + 1]

RECURSIVE Merged(_, _, _)
\* merged = line; for k in 1..merge_count: merged += " " + lines[i+k].strip()
Merged(ls, i, merge_count) ==
    IF merge_count = 0 THEN StripLine(LineAt(ls, i))
    ELSE Merged(ls, i, merge_count - 1)
             \o <<WS>> \o StripLine(LineAt(ls, i + merge_count))

RECURSIVE MergeSearch(_, _, _, _, _)
\* lines 232-236 for one merge_count, r being what try_match_line returned
MergeAttempt(ls, i, products_list, services_list, merge_count, r) ==
    IF r.ok
    THEN [width |-> merge_count, products |-> r.products,
          services |-> r.services]
    ELSE MergeSearch(ls, i, products_list, services_list, merge_count + 1)

\* the for loop over merge_count: the first width whose merged string
\* matches (0: none), with the lists after the attempt
MergeSearch(ls, i, products_list, services_list, merge_count) ==
    IF merge_count < MAX_LINE_MERGE /\ i + merge_count < Len(ls)
    THEN MergeAttempt(ls, i, products_list, services_list, merge_count,
                      try_match_line(Merged(ls, i, merge_count),
                                     products_list, services_list))
    ELSE [width |-> 0, products |-> products_list, services |-> services_list]

\* a tokenizer that forgets the blank-line test
IsBlankLine_never(line) == FALSE
IsBlankLine(line) == line = <<>>

\* lines 233-241, m being the outcome of the for loop
AfterMerge(i, products_list, services_list, m) ==
    IF m.width > 0
    THEN [i |-> i + (m.width + 1), products |-> m.products,
          services |-> m.services, kind |-> "merge", width |-> m.width]
    ELSE [i |-> i + 1, products |-> products_list,
          services |-> services_list, kind |-> "nomatch", width |-> 0]

\* lines 220-241, r being what try_match_line returned for the line alone
AfterSingle(ls, i, products_list, services_list, r) ==
    IF r.ok
    THEN [i |-> i + 1, products |-> r.products, services |-> r.services,
          kind |-> "single", width |-> 0]
    ELSE AfterMerge(i, products_list, services_list,
                    MergeSearch(ls, i, products_list, services_list, 1))

\* one iteration of the while loop
LoopStep(ls, i, products_list, services_list) ==
    IF IsBlankLine(StripLine(LineAt(ls, i)))
    THEN [i |-> i + 1, products |-> products_list, services |-> services_list,
          kind |-> "blank", width |-> 0]
    ELSE AfterSingle(ls, i, products_list, services_list,
                     try_match_line(StripLine(LineAt(ls, i)),
                                    products_list, services_list))

RECURSIVE WhileLoop(_, _, _, _)
\* the loop from cursor i on, n being the iteration at i
WhileFrom(ls, n) == WhileLoop(ls, n.i, n.products, n.services)

WhileLoop(ls, i, products_list, services_list) ==
    IF i < Len(ls)
    THEN WhileFrom(ls, LoopStep(ls, i, products_list, services_list))
    ELSE [products |-> products_list, services |-> services_list]

\* the argument is extracted_text.splitlines()
CleanLines(ls) == [k \in 1..Len(ls) |-> cleanup_line(ls[k])]
extract_line_by_line_items(ls) == WhileLoop(CleanLines(ls), 0, <<>>, <<>>)

(***************************************************************************)
(* Simple header patterns                                                  *)
(***************************************************************************)
RECURSIVE Flatten(_)
Flatten(ls) == IF ls = <<>> THEN <<>> ELSE Head(ls) \o Flatten(Tail(ls))

\* extract_invoice_details: the first "Invoice Number" label, else None
extract_invoice_details(ls) ==
    IF "IN" \in SeqRange(Flatten(ls)) THEN "INV-42" ELSE "None"

RECURSIVE PoOfTokens(_)
PoOfTokens(s) ==
    IF s = <<>> THEN <<>>
    ELSE IF Head(s) \in {"PO", "PH"}
         THEN <<PoText(Head(s))>> \o PoOfTokens(Tail(s))
         ELSE PoOfTokens(Tail(s))

\* extract_po_numbers: every PO label followed by digits, in text order
extract_po_numbers(ls) == PoOfTokens(Flatten(ls))

(***************************************************************************)
(* Consistency reports                                                     *)
(***************************************************************************)
\* int * float converts the int to a float first: OverflowError when the
\* int is too large
MulOverflows(n) == Abs(n) > DblMaxInt

\* round(x, 2); up tells which neighbour a value half way between two
\* hundredths ends on (it depends on the binary value of the float)
Round2(x, up) ==
    LET lo == (x \div Cent) * Cent
        r  == x - lo
    IN  IF 2 * r < Cent THEN lo
        ELSE IF 2 * r > Cent THEN lo + Cent
        ELSE IF up THEN lo + Cent ELSE lo

\* a comparison that also reports a difference of exactly 0.01
Mismatch_ge(exp, act) == Abs(exp - act) >= Cent
\* abs(exp - act) > 0.01
Mismatch(exp, act) == Abs(exp - act) > Cent

RECURSIVE ProductMismatches(_, _, _)
ProductMismatches(ps, ties, k) ==
    IF k > Len(ps) THEN <<>>
    ELSE (IF Mismatch(ps[k].quantity * ps[k].unit_price, ps[k].total_price)
          THEN <<[product_code |-> ps[k].product_code,
                  expected_total |->
                      Round2(ps[k].quantity * ps[k].unit_price, ties[k]),
                  actual_total |-> ps[k].total_price]>>
          ELSE <<>>) \o ProductMismatches(ps, ties, k + 1)

\* the report made of the list of mismatches
ReportOf(mismatches) ==
    [price_mismatches |-> mismatches, total_inconsistencies |-> Len(mismatches)]

ProductsOverflow(ps) == \E k \in 1..Len(ps) : MulOverflows(ps[k].quantity)
generate_consistency_report_for_products(ps, ties) ==
    ReportOf(ProductMismatches(ps, ties, 1))

RECURSIVE ServiceMismatches(_, _, _)
ServiceMismatches(ss, ties, k) ==
    IF k > Len(ss) THEN <<>>
    ELSE (IF Mismatch(ss[k].hours * ss[k].rate_per_hour, ss[k].amount)
          THEN <<[service_name |-> ss[k].service_name,
                  expected_total |->
                      Round2(ss[k].hours * ss[k].rate_per_hour, ties[k]),
                  actual_total |-> ss[k].amount]>>
          ELSE <<>>) \o ServiceMismatches(ss, ties, k + 1)

ServicesOverflow(ss) == \E k \in 1..Len(ss) : MulOverflows(ss[k].hours)
generate_consistency_report_for_services(ss, ties) ==
    ReportOf(ServiceMismatches(ss, ties, 1))

\* the ways the ties of a list of n records can fall
Ties(n) == [1..n -> BOOLEAN]

RECURSIVE ProductPoList(_)
\* [p["po_number"] for p in products if "po_number" in p and p["po_number"]]
ProductPoList(ps) ==
    IF ps = <<>> THEN <<>>
    ELSE (IF "po_number" \in DOMAIN Head(ps) /\ Head(ps).po_number # ""
          THEN <<Head(ps).po_number>> ELSE <<>>) \o ProductPoList(Tail(ps))

RECURSIVE NotIn(_, _)
\* [po for po in xs if po not in ys]
NotIn(xs, ys) ==
    IF xs = <<>> THEN <<>>
    ELSE (IF Head(xs) \in SeqRange(ys) THEN <<>> ELSE <<Head(xs)>>)
             \o NotIn(Tail(xs), ys)

PoReportOf(missing, unused) ==
    [missing_in_extracted |-> missing, unused_in_products |-> unused,
     total_inconsistencies |-> Len(missing) + Len(unused)]

generate_po_consistency_report(ps, po_numbers) ==
    PoReportOf(NotIn(ProductPoList(ps), po_numbers),
               NotIn(po_numbers, ProductPoList(ps)))

(***************************************************************************)
(* State                                                                   *)
(***************************************************************************)
VARIABLES
    \* extract_line_by_line_items
    src,          \* how the input text was laid out (form, cuts, blanks, indent)
    text_lines,   \* extracted_text.splitlines()
    lines,        \* the cleaned lines
    i,            \* the cursor
    products,     \* the product records so far
    services,     \* the service records so far
    lpc,          \* "start", "loop", "done"
    last,         \* the last iteration: where it began, what it did
    \* process_pdf
    doc,          \* the document: what each collaborator does with it
    ppc,          \* "table", "fallback", "ocr", "extract", "done", "raised"
    calls,        \* the collaborators and the tokenizer, as invoked
    extracted_text, \* the text the fallback works on
    result,       \* what process_pdf returned
    \* the consistency reports
    recs,         \* the product records handed to the reports
    svcs,         \* the service records handed to the reports
    po_numbers,   \* the header PO numbers handed to the PO report
    rpc,          \* which reports have been made
    prod_report, serv_report, po_report

lineVars == <<src, text_lines, lines, i, products, services, lpc, last>>
pdfVars == <<doc, ppc, calls, extracted_text, result>>
reportVars ==
    <<recs, svcs, po_numbers, rpc, prod_report, serv_report, po_report>>
vars == <<lineVars, pdfVars, reportVars>>

\* the parts of the state a specification does not use
LinesIdle ==
    /\ src = [form |-> <<>>, cuts |-> {}, blanks |-> 0, indent |-> 0]
    /\ text_lines = <<>> /\ lines = <<>> /\ i = 0
    /\ products = <<>> /\ services = <<>> /\ lpc = "idle"
    /\ last = [at |-> 0, kind |-> "none", width |-> 0]
NoReport == [price_mismatches |-> <<>>, total_inconsistencies |-> 0]
NoPoReport == PoReportOf(<<>>, <<>>)
NoResult ==
    [path |-> "none", invoice_num |-> "None", pnums |-> <<>>,
     products |-> <<>>, services |-> <<>>, prod_report |-> NoReport,
     serv_report |-> NoReport, po_report |-> NoPoReport]
PdfIdle ==
    /\ doc = <<>> /\ ppc = "idle" /\ calls = <<>>
    /\ extracted_text = <<>> /\ result = NoResult
ReportsIdle ==
    /\ recs = <<>> /\ svcs = <<>> /\ po_numbers = <<>> /\ rpc = {}
    /\ prod_report = NoReport /\ serv_report = NoReport
    /\ po_report = NoPoReport

(***************************************************************************)
(* Input texts of the tokenizer: a run of lexemes (one or two records,     *)
(* possibly with noise) cut into lines at any set of token boundaries,     *)
(* with the same number of blank lines at every cut, every line indented   *)
(* by the same number of whitespace characters.                            *)
(***************************************************************************)
MaxBlanks == 2
MaxIndent == 1

FormA   == <<"PC", "QA", "UP", "AM">>
FormB   == <<"CD", "W1", "QB", "PR", "TT">>
FormB2  == <<"CD", "W1", "W2", "QB", "PR", "TT">>
FormBPO == <<"CD", "W1", "QB", "PR", "TT", "PO">>
FormC   == <<"W1", "HR", "RT", "AM">>
FormBx  == <<"CD", "W1", "QBx", "PRx", "TT">>
FormPCB == <<"PC", "W1", "QB", "PR", "TT">>
FormAC  == <<"PC", "QA", "UP", "AM", "HR", "RT", "AM">>
FormBC  == <<"CD", "W1", "QB", "PR", "TT", "HR", "RT", "AM">>
FormBA  == <<"CD", "W1", "QB", "PR", "TT", "PC", "QA", "UP", "AM">>
FormJ   == <<"JK", "W1", "HR", "RT", "AM", "JK">>
\* the forms that are one record of one grammar
RecordForms == {FormA, FormB, FormB2, FormBPO, FormC, FormBx}
Forms == RecordForms \cup {FormPCB, FormAC, FormBC, FormBA, FormJ}

Pad(n) == [k \in 1..n |-> WS]

RECURSIVE LayOutFrom(_, _, _, _, _, _)
LayOutFrom(form, cuts, blanks, indent, k, cur) ==
    IF k > Len(form) THEN <<>>
    ELSE LET cur2 == IF cur = Pad(indent) THEN cur \o <<form[k]>>
                     ELSE cur \o <<WS, form[k]>>
         IN  IF k = Len(form) THEN <<cur2>>
             ELSE IF k \in cuts
             THEN <<cur2>> \o [j \in 1..blanks |-> Pad(indent)]
                      \o LayOutFrom(form, cuts, blanks, indent, k + 1,
                                    Pad(indent))
             ELSE LayOutFrom(form, cuts, blanks, indent, k + 1, cur2)

LayOut(d) == LayOutFrom(d.form, d.cuts, d.blanks, d.indent, 1, Pad(d.indent))

\* the form written on one line
OneLine(form) == LayOutFrom(form, {}, 0, 0, 1, <<>>)[1]

Layouts ==
    UNION {[form : {f}, cuts : SUBSET (1..(Len(f) - 1)),
            blanks : 0..MaxBlanks, indent : 0..MaxIndent] : f \in Forms}

(***************************************************************************)
(* The tokenizer, one action per way an iteration of the while loop ends   *)
(***************************************************************************)
LinesInit ==
    /\ src \in Layouts
    /\ text_lines = LayOut(src)
    /\ lines = <<>>
    /\ i = 0
    /\ products = <<>>
    /\ services = <<>>
    /\ lpc = "start"
    /\ last = [at |-> 0, kind |-> "none", width |-> 0]
    /\ PdfIdle
    /\ ReportsIdle

\* lines 206-212
LinesBegin ==
    /\ lpc = "start"
    /\ lines' = CleanLines(text_lines)
    /\ i' = 0
    /\ products' = <<>>
    /\ services' = <<>>
    /\ lpc' = "loop"
    /\ UNCHANGED <<src, text_lines, last, pdfVars, reportVars>>

\* the iteration n is of the given kind and is taken
Taken(kind, n) ==
    /\ n.kind = kind
    /\ i' = n.i
    /\ products' = n.products
    /\ services' = n.services
    /\ last' = [at |-> i, kind |-> n.kind, width |-> n.width]

\* lines 214-217: a blank line at the cursor
SkipBlank ==
    /\ lpc = "loop"
    /\ i < Len(lines)
    /\ Taken("blank", LoopStep(lines, i, products, services))
    /\ UNCHANGED <<src, text_lines, lines, lpc, pdfVars, reportVars>>
\* lines 219-222: the current line alone matches
MatchSingle ==
    /\ lpc = "loop"
    /\ i < Len(lines)
    /\ Taken("single", LoopStep(lines, i, products, services))
    /\ UNCHANGED <<src, text_lines, lines, lpc, pdfVars, reportVars>>
\* lines 224-236: a merge window matches
MergeMatch ==
    /\ lpc = "loop"
    /\ i < Len(lines)
    /\ Taken("merge", LoopStep(lines, i, products, services))
    /\ UNCHANGED <<src, text_lines, lines, lpc, pdfVars, reportVars>>
\* lines 240-241: nothing matches
NoMatch ==
    /\ lpc = "loop"
    /\ i < Len(lines)
    /\ Taken("nomatch", LoopStep(lines, i, products, services))
    /\ UNCHANGED <<src, text_lines, lines, lpc, pdfVars, reportVars>>

\* line 243
LinesReturn ==
    /\ lpc = "loop"
    /\ i >= Len(lines)
    /\ lpc' = "done"
    /\ UNCHANGED <<src, text_lines, lines, i, products, services, last,
                   pdfVars, reportVars>>

LinesNext ==
    \/ LinesBegin
    \/ SkipBlank
    \/ MatchSingle
    \/ MergeMatch
    \/ NoMatch
    \/ LinesReturn

SpecLines == LinesInit /\ [][LinesNext]_vars

(***************************************************************************)
(* The consistency reports as functions of their inputs                    *)
(***************************************************************************)
MaxRecs == 2
MaxQty == 2
MaxHeaderPos == 2

SeqsUpTo(S, n) == UNION {[1..k -> S] : k \in 0..n}

\* quantity, unit price and how far the stated total is from their product
UnitPrices == {One, One + Cent \div 2}
Deltas == {-(Cent + 1), -Cent, 0, Cent, Cent + 1}
Numbers ==
    {[q |-> q, u |-> u, t |-> q * u + d] :
        q \in 1..MaxQty, u \in UnitPrices, d \in Deltas}

AsProduct(n) ==
    [product_code |-> "PRD-001", quantity |-> n.q, unit_price |-> n.u,
     total_price |-> n.t]
AsService(n) ==
    [service_name |-> <<"W1">>, hours |-> n.q, rate_per_hour |-> n.u,
     amount |-> n.t]

PriceInit ==
    /\ \E ns \in SeqsUpTo(Numbers, MaxRecs) :
          /\ recs = [k \in 1..Len(ns) |-> AsProduct(ns[k])]
          /\ svcs = [k \in 1..Len(ns) |-> AsService(ns[k])]
    /\ po_numbers = <<>>
    /\ rpc = {}
    /\ prod_report = NoReport
    /\ serv_report = NoReport
    /\ po_report = NoPoReport
    /\ LinesIdle
    /\ PdfIdle

\* generate_consistency_report_for_products
ProductReport ==
    /\ "product" \notin rpc
    /\ \E ties \in Ties(Len(recs)) :
          prod_report' = IF ProductsOverflow(recs) THEN NoReport
                         ELSE generate_consistency_report_for_products(recs, ties)
    /\ rpc' = rpc \cup {"product"}
    /\ UNCHANGED <<recs, svcs, po_numbers, serv_report, po_report,
                   lineVars, pdfVars>>

\* generate_consistency_report_for_services
ServiceReport ==
    /\ "service" \notin rpc
    /\ \E ties \in Ties(Len(svcs)) :
          serv_report' = IF ServicesOverflow(svcs) THEN NoReport
                         ELSE generate_consistency_report_for_services(svcs, ties)
    /\ rpc' = rpc \cup {"service"}
    /\ UNCHANGED <<recs, svcs, po_numbers, prod_report, po_report,
                   lineVars, pdfVars>>

PriceNext == ProductReport \/ ServiceReport

SpecPrice == PriceInit /\ [][PriceNext]_vars

\* product records with no PO, an empty PO or a PO number
PoProducts ==
    {AsProduct([q |-> 1, u |-> One, t |-> One])}
    \cup {[product_code |-> "PRD-77X", description |-> <<"W1">>,
           quantity |-> 2, unit_price |-> One, total_price |-> 2 * One,
           po_number |-> po] : po \in {"", "100", "300"}}
HeaderPos == {"100", "200"}

PoInit ==
    /\ recs \in SeqsUpTo(PoProducts, MaxRecs)
    /\ po_numbers \in SeqsUpTo(HeaderPos, MaxHeaderPos)
    /\ svcs = <<>>
    /\ rpc = {}
    /\ prod_report = NoReport
    /\ serv_report = NoReport
    /\ po_report = NoPoReport
    /\ LinesIdle
    /\ PdfIdle

\* generate_po_consistency_report
PoReport ==
    /\ "po" \notin rpc
    /\ po_report' = generate_po_consistency_report(recs, po_numbers)
    /\ rpc' = rpc \cup {"po"}
    /\ UNCHANGED <<recs, svcs, po_numbers, prod_report, serv_report,
                   lineVars, pdfVars>>

PoNext == PoReport

SpecPo == PoInit /\ [][PoNext]_vars

(***************************************************************************)
(* process_pdf.  A document is what the four collaborators do with it:     *)
(*   table     what camelot.read_pdf does: raises, finds nothing, or       *)
(*             returns tables (a header row and the rows under it)         *)
(*   extractor what PyPDF2 does: raises, or returns a text (its length in  *)
(*             characters and its lines)                                   *)
(*   renderer  what pdf2image does: raises, or returns the page images     *)
(*   ocr       what easyocr does with a page: raises, or returns lines     *)
(* The supplier block is left out of the result.                           *)
(***************************************************************************)
MIN_CHAR_THRESHOLD == 100
MaxPages == 1

\* parse_camelot_tables: tables with fewer than 2 rows are skipped, the
\* other rows become dictionaries keyed by the first row
RowDict(header, row) ==
    [c \in SeqRange(header) |->
        row[CHOOSE k \in 1..Len(header) :
                header[k] = c /\ \A j \in (k + 1)..Len(header) : header[j] # c]]

RECURSIVE parse_camelot_tables(_)
parse_camelot_tables(tables) ==
    IF tables = <<>> THEN <<>>
    ELSE LET tb == Head(tables) IN
         (IF 1 + Len(tb.rows) < 2 THEN <<>>
          ELSE [k \in 1..Len(tb.rows) |-> RowDict(tb.header, tb.rows[k])])
             \o parse_camelot_tables(Tail(tables))

\* row.get(key, default)
Get(row, key, default) == IF key \in DOMAIN row THEN row[key] ELSE default

\* lines 442-459: one table row as a product record
RowProduct(code, qty, price, total) ==
    IF IntOk(qty)
    THEN [product_code |-> code, quantity |-> IntVal(qty),
          unit_price |-> fix_float(price), total_price |-> fix_float(total)]
    ELSE [product_code |-> code, quantity |-> 0, unit_price |-> 0,
          total_price |-> 0]

TableRowProducts(rows) ==
    [k \in 1..Len(rows) |->
        RowProduct(Get(rows[k], "Product Code", <<>>),
                   Get(rows[k], "Qty", <<"0">>),
                   Get(rows[k], "Price", <<"0">>),
                   Get(rows[k], "Total", <<"0">>))]

TableProducts(d) == TableRowProducts(parse_camelot_tables(d.table.tables))

\* extract_text_with_pypdf2: "" when PyPDF2 raises
NoText == [len |-> 0, lines |-> <<>>]
extract_text_with_pypdf2(d) ==
    IF d.extractor.raises THEN NoText ELSE d.extractor.text

\* ocr_with_easyocr when nothing raises: the lines of every page
RECURSIVE OcrLines(_, _)
OcrLines(d, pages) ==
    IF pages = 0 THEN <<>> ELSE OcrLines(d, pages - 1) \o d.ocr.lines

RECURSIVE Repeat(_, _)
Repeat(x, n) == IF n = 0 THEN <<>> ELSE <<x>> \o Repeat(x, n - 1)

\* lines 460-469: what the table branch returns
TableResult(ps, txt, ties) ==
    [path |-> "table",
     invoice_num |-> extract_invoice_details(txt.lines),
     pnums |-> extract_po_numbers(txt.lines),
     products |-> ps,
     services |-> <<>>,
     prod_report |-> generate_consistency_report_for_products(ps, ties),
     serv_report |-> [price_mismatches |-> <<>>, total_inconsistencies |-> 0],
     po_report |->
         generate_po_consistency_report(ps, extract_po_numbers(txt.lines))]

\* lines 479-488: what the fallback returns
FallbackResult(ls, items, pties, sties) ==
    [path |-> "fallback",
     invoice_num |-> extract_invoice_details(ls),
     pnums |-> extract_po_numbers(ls),
     products |-> items.products,
     services |-> items.services,
     prod_report |->
         generate_consistency_report_for_products(items.products, pties),
     serv_report |->
         generate_consistency_report_for_services(items.services, sties),
     po_report |->
         generate_po_consistency_report(items.products,
                                        extract_po_numbers(ls))]

(***************************************************************************)
(* The documents                                                           *)
(***************************************************************************)
Header4 == <<"Product Code", "Qty", "Price", "Total">>
Header3 == <<"Product Code", "Price", "Total">>
CodeCell == <<"PRD-9">>
QtyCells == {<<"3">>, <<"-", "5">>, <<" ", "7", " ">>, <<"3", ".", "0">>,
             <<"x">>, <<>>, <<DigitRun>>}
PriceCells == {<<"1", ".", "5">>, <<"-", "1", ".", "5">>, <<"1", ",", "5">>,
               <<"S", "2">>, <<"x">>}
TotalCells == {<<"4", ".", "5">>, <<"1", ".", "2", ".", "3">>}

Tables ==
    {[header |-> Header4, rows |-> <<<<CodeCell, q, p, t>>>>] :
        q \in QtyCells, p \in PriceCells, t \in TotalCells}
    \cup {[header |-> Header3, rows |-> <<<<CodeCell, p, t>>>>] :
            p \in PriceCells, t \in TotalCells}
    \cup {[header |-> Header4, rows |-> <<>>]}

TableOutcomes ==
    {[kind |-> "raise", tables |-> <<>>], [kind |-> "none", tables |-> <<>>]}
    \cup {[kind |-> "tables", tables |-> <<t>>] : t \in Tables}
    \cup {[kind |-> "tables",
           tables |-> <<[header |-> Header4, rows |-> <<>>], t>>] :
             t \in {u \in Tables : u.header = Header3}}

ServiceLine == OneLine(FormC)
TextBodies ==
    {<<ServiceLine>>,
     <<<<"IN">>, OneLine(FormBPO), <<"PH">>, <<>>, ServiceLine>>,
     <<<<"CD", WS, "W1", WS, "QH", WS, "PR", WS, "TT">>>>}
TextLens == {MIN_CHAR_THRESHOLD - 1, MIN_CHAR_THRESHOLD, MIN_CHAR_THRESHOLD + 1}
Texts == {NoText} \cup [len : TextLens, lines : TextBodies]

ExtractorOutcomes ==
    {[raises |-> TRUE, text |-> NoText]} \cup [raises : {FALSE}, text : Texts]
RendererOutcomes ==
    {[raises |-> TRUE, pages |-> 0]} \cup [raises : {FALSE}, pages : 0..MaxPages]
OcrOutcomes ==
    {[raises |-> TRUE, lines |-> <<>>]}
    \cup [raises : {FALSE}, lines : {<<ServiceLine>>, <<OneLine(FormB)>>}]

Documents ==
    [table : TableOutcomes, extractor : ExtractorOutcomes,
     renderer : RendererOutcomes, ocr : OcrOutcomes]

(***************************************************************************)
(* The cascade, one action per way a stage of process_pdf ends             *)
(***************************************************************************)
PdfInit ==
    /\ doc \in Documents
    /\ ppc = "table"
    /\ calls = <<>>
    /\ extracted_text = <<>>
    /\ result = NoResult
    /\ LinesIdle
    /\ ReportsIdle

\* lines 432-433, 473-475: camelot.read_pdf raises
TableRaises ==
    /\ ppc = "table"
    /\ doc.table.kind = "raise"
    /\ calls' = calls \o <<"TableDetector">>
    /\ ppc' = "fallback"
    /\ UNCHANGED <<doc, extracted_text, result, lineVars, reportVars>>

\* lines 432-434, 470-472: no table
TableNone ==
    /\ ppc = "table"
    /\ doc.table.kind = "none"
    /\ calls' = calls \o <<"TableDetector">>
    /\ ppc' = "fallback"
    /\ UNCHANGED <<doc, extracted_text, result, lineVars, reportVars>>

\* lines 432-469: tables found and the table branch returns
TableReturns ==
    /\ ppc = "table"
    /\ doc.table.kind = "tables"
    /\ ~ProductsOverflow(TableProducts(doc))
    /\ calls' = calls \o <<"TableDetector", "TextExtractor">>
    /\ \E ties \in Ties(Len(TableProducts(doc))) :
          result' = TableResult(TableProducts(doc),
                                extract_text_with_pypdf2(doc), ties)
    /\ ppc' = "done"
    /\ UNCHANGED <<doc, extracted_text, lineVars, reportVars>>

\* lines 432-465, 473-475: tables found, the product report raises
\* OverflowError inside the try block and the except clause swallows it
TableAbandoned ==
    /\ ppc = "table"
    /\ doc.table.kind = "tables"
    /\ ProductsOverflow(TableProducts(doc))
    /\ calls' = calls \o <<"TableDetector", "TextExtractor">>
    /\ ppc' = "fallback"
    /\ UNCHANGED <<doc, extracted_text, result, lineVars, reportVars>>

\* lines 478, 63-67: enough digital text
TextIsDigital ==
    /\ ppc = "fallback"
    /\ extract_text_with_pypdf2(doc).len >= MIN_CHAR_THRESHOLD
    /\ calls' = calls \o <<"TextExtractor">>
    /\ extracted_text' = extract_text_with_pypdf2(doc).lines
    /\ ppc' = "extract"
    /\ UNCHANGED <<doc, result, lineVars, reportVars>>

\* lines 478, 63-64, 68-71: too little digital text
TextTooShort ==
    /\ ppc = "fallback"
    /\ ~(extract_text_with_pypdf2(doc).len >= MIN_CHAR_THRESHOLD)
    /\ calls' = calls \o <<"TextExtractor">>
    /\ ppc' = "ocr"
    /\ UNCHANGED <<doc, extracted_text, result, lineVars, reportVars>>

\* line 53: convert_from_path raises; nothing catches it
RendererRaises ==
    /\ ppc = "ocr"
    /\ doc.renderer.raises
    /\ calls' = calls \o <<"PageRenderer">>
    /\ ppc' = "raised"
    /\ UNCHANGED <<doc, extracted_text, result, lineVars, reportVars>>

\* lines 53-58: readtext raises on the first page; nothing catches it
OcrRaises ==
    /\ ppc = "ocr"
    /\ ~doc.renderer.raises
    /\ doc.renderer.pages > 0
    /\ doc.ocr.raises
    /\ calls' = calls \o <<"PageRenderer", "OCREngine">>
    /\ ppc' = "raised"
    /\ UNCHANGED <<doc, extracted_text, result, lineVars, reportVars>>

\* lines 53-60: every page is read
OcrReturns ==
    /\ ppc = "ocr"
    /\ ~doc.renderer.raises
    /\ doc.renderer.pages > 0 => ~doc.ocr.raises
    /\ calls' = calls \o <<"PageRenderer">>
                      \o Repeat("OCREngine", doc.renderer.pages)
    /\ extracted_text' = OcrLines(doc, doc.renderer.pages)
    /\ ppc' = "extract"
    /\ UNCHANGED <<doc, result, lineVars, reportVars>>

\* what lines 484-485 raise on the items the tokenizer found
ItemsOverflow(items) ==
    ProductsOverflow(items.products) \/ ServicesOverflow(items.services)

\* lines 484-488 on the items the tokenizer found
ReturnItems(items) ==
    \E pties \in Ties(Len(items.products)), sties \in Ties(Len(items.services)) :
        result' = FallbackResult(extracted_text, items, pties, sties)

\* lines 479-488: the fallback returns
FallbackReturns ==
    /\ ppc = "extract"
    /\ ~ItemsOverflow(extract_line_by_line_items(extracted_text))
    /\ calls' = calls \o <<"Tokenizer">>
    /\ ReturnItems(extract_line_by_line_items(extracted_text))
    /\ ppc' = "done"
    /\ UNCHANGED <<doc, extracted_text, lineVars, reportVars>>

\* lines 479-485: a report raises OverflowError; nothing catches it
FallbackRaises ==
    /\ ppc = "extract"
    /\ ItemsOverflow(extract_line_by_line_items(extracted_text))
    /\ calls' = calls \o <<"Tokenizer">>
    /\ ppc' = "raised"
    /\ UNCHANGED <<doc, extracted_text, result, lineVars, reportVars>>

PdfNext ==
    \/ TableRaises
    \/ TableNone
    \/ TableReturns
    \/ TableAbandoned
    \/ TextIsDigital
    \/ TextTooShort
    \/ RendererRaises
    \/ OcrRaises
    \/ OcrReturns
    \/ FallbackReturns
    \/ FallbackRaises

Spec == PdfInit /\ [][PdfNext]_vars

(***************************************************************************)
(* Properties of process_pdf (specification Spec)                          *)
(***************************************************************************)
Invoked(c) == c \in SeqRange(calls)

\* C1: whatever the collaborators do (return or raise), process_pdf
\* returns a result and no exception escapes it.
C1_NoExceptionEscapes == ppc # "raised"

\* C2: whenever TableDetector returns at least one table, the result has
\* services == [] and service_inconsistencies.total_inconsistencies == 0.
C2_TablesMeanNoServices ==
    (ppc = "done" /\ doc.table.kind = "tables") =>
        /\ result.services = <<>>
        /\ result.serv_report.total_inconsistencies = 0

\* C3: the cascade runs table -> digital text -> OCR without re-entry:
\* TableDetector is invoked first and once, OCR (PageRenderer, OCREngine)
\* only if TableDetector returned no table and the digital text is shorter
\* than 100 characters (a text of exactly 100 characters is digital), and
\* when TableDetector returned a table neither OCR nor the tokenizer runs.
C3_CascadeOrder ==
    /\ calls # <<>> => calls[1] = "TableDetector"
    /\ \A k \in 2..Len(calls) : calls[k] # "TableDetector"
    /\ (Invoked("PageRenderer") \/ Invoked("OCREngine")) =>
          /\ doc.table.kind # "tables"
          /\ extract_text_with_pypdf2(doc).len < 100
    /\ Invoked("Tokenizer") => doc.table.kind # "tables"
    /\ Invoked("OCREngine") => Invoked("PageRenderer")

\* C7: every product record of the result, on the table path and on the
\* text path, has quantity >= 0, unit_price >= 0 and total_price >= 0.
C7_ProductFieldsNonNegative ==
    ppc = "done" =>
        \A k \in 1..Len(result.products) :
            /\ result.products[k].quantity >= 0
            /\ result.products[k].unit_price >= 0
            /\ result.products[k].total_price >= 0

(***************************************************************************)
(* Properties of the reports (specifications SpecPrice and SpecPo)         *)
(***************************************************************************)
\* the k-th element, in increasing order, of a set of indexes
Nth(S, k) == CHOOSE x \in S : Cardinality({y \in S : y < x}) = k - 1

\* the mismatch list of a report is exactly the records, in order, whose
\* expected total exp[k] differs from the stated total act[k] by more
\* than 0.01, each with the expected total rounded to 2 decimals
ReportIsExact(report, exp, act) ==
    LET R == {k \in DOMAIN exp : Abs(exp[k] - act[k]) > Cent} IN
    /\ report.total_inconsistencies = Cardinality(R)
    /\ Len(report.price_mismatches) = Cardinality(R)
    /\ \A j \in 1..Len(report.price_mismatches) :
          LET e == report.price_mismatches[j] IN
          /\ e.actual_total = act[Nth(R, j)]
          /\ e.expected_total % Cent = 0
          /\ 2 * Abs(e.expected_total - exp[Nth(R, j)]) <= Cent

C6_PoSetDifferences ==
    "po" \in rpc =>
        LET P == {recs[k].po_number :
                     k \in {j \in 1..Len(recs) :
                               /\ "po_number" \in DOMAIN recs[j]
                               /\ recs[j].po_number # ""}}
            H == SeqRange(po_numbers)
        IN  /\ SeqRange(po_report.missing_in_extracted) = P \ H
            /\ SeqRange(po_report.unused_in_products) = H \ P
            /\ po_report.total_inconsistencies
                   = Cardinality(P \ H) + Cardinality(H \ P)

(***************************************************************************)
(* Properties of the tokenizer (specification SpecLines)                   *)
(***************************************************************************)
RECURSIVE JoinLines(_, _, _)
\* the stripped lines a..b (0-based) joined by single spaces
JoinLines(ls, a, b) ==
    IF a >= b THEN StripLine(ls[a + 1])
    ELSE StripLine(ls[a + 1]) \o <<WS>> \o JoinLines(ls, a + 1, b)

AnyGrammar(s) == MatchA(s) \/ MatchB(s) \/ MatchC(s)

\* an iteration of the loop is about to run on a non-blank line
AtLine == lpc = "loop" /\ i < Len(lines) /\ StripLine(lines[i + 1]) # <<>>
AtBlank == lpc = "loop" /\ i < Len(lines) /\ StripLine(lines[i + 1]) = <<>>

\* C4: a record of grammar A, B (with or without PO) or C whose fields are
\* split across 3 consecutive lines is emitted exactly as for the
\* single-line form, and the first iteration moves the cursor from 0 to 3.
C4_ThreeLineSplit ==
    (/\ src.form \in RecordForms
     /\ Cardinality(src.cuts) = 2
     /\ src.blanks = 0
     /\ lpc \in {"loop", "done"}
     /\ i > 0) =>
        /\ i = 3
        /\ [products |-> products, services |-> services]
               = extract_line_by_line_items(<<OneLine(src.form)>>)

RECURSIVE NonBlank(_)
\* the lines without the blank ones
NonBlank(ls) ==
    IF ls = <<>> THEN <<>>
    ELSE (IF StripLine(Head(ls)) = <<>> THEN <<>> ELSE <<Head(ls)>>)
             \o NonBlank(Tail(ls))

\* C8 as stated: blank lines never count toward the merge window, so the
\* records found are those found in the same text without its blank lines.
C8_BlankLinesTransparent ==
    lpc = "done" =>
        [products |-> products, services |-> services]
            = extract_line_by_line_items(NonBlank(text_lines))

\* C8 as amended: a blank line at the cursor is skipped with no match or
\* merge attempt (the cursor moves by one, nothing is emitted); blank lines
\* after a non-blank cursor line are part of the merge window and count
\* toward its 5 following lines, so an iteration consumes at most 6 lines,
\* blank ones included.
C8_BlankSkippedAtCursorOnly ==
    [][/\ AtBlank => (i' = i + 1 /\ products' = products
                        /\ services' = services)
       /\ AtLine => i' - i <= 6]_vars

\* a merge window that matched holds a blank line
C8_Witness ==
    /\ last.kind = "merge"
    /\ \E k \in 1..last.width : StripLine(lines[last.at + k + 1]) = <<>>

\* C9: where the current line alone matches no grammar, the window grows
\* by one following line at a time, from 1 to at most 5 and never past the
\* end of the input; the smallest width whose merged string matches ends
\* the search and the cursor moves by width + 1; if no width matches, the
\* cursor moves by one and no record is emitted.
C9_MergeWindow ==
    [][(AtLine /\ ~AnyGrammar(StripLine(lines[i + 1]))) =>
          LET W == {w \in 1..5 : /\ i + w < Len(lines)
                                 /\ AnyGrammar(JoinLines(lines, i, i + w))}
          IN  IF W # {}
              THEN /\ i' = i + Least(W) + 1
                   /\ Len(products') + Len(services')
                          = Len(products) + Len(services) + 1
              ELSE /\ i' = i + 1
                   /\ products' = products
                   /\ services' = services]_vars

\* a window of the largest width, 5 following lines, matched
C9_Witness == last.kind = "merge" /\ last.width = 5

\* C10: on the string an iteration ends with (the line alone or the merged
\* window, at any width) the grammars are tried in the order A, B, C and
\* the first that matches emits the one record; no match emits nothing.
C10_GrammarPriority ==
    [][AtLine =>
          LET s == JoinLines(lines, i, i' - 1) IN
          /\ MatchA(s) =>
                /\ products' = parse_pattern_a(GroupsA(s), products)
                /\ services' = services
          /\ (~MatchA(s) /\ MatchB(s)) =>
                /\ products' = parse_pattern_b(GroupsB(s), products)
                /\ services' = services
          /\ (~MatchA(s) /\ ~MatchB(s) /\ MatchC(s)) =>
                /\ products' = products
                /\ services' = parse_pattern_service(GroupsC(s), services)
          /\ ~AnyGrammar(s) => (products' = products /\ services' = services)
          /\ Len(products') + Len(services')
                 <= Len(products) + Len(services) + 1]_vars

\* a merged window matched two grammars at once and one record came out
C10_Witness ==
    /\ last.kind = "merge"
    /\ LET s == JoinLines(lines, last.at, last.at + last.width) IN
       \/ MatchA(s) /\ MatchC(s)
       \/ MatchB(s) /\ MatchC(s)
       \/ MatchA(s) /\ MatchB(s)
    /\ Len(products) + Len(services) = 1

====
